---- MODULE Spec2Model ----
(***************************************************************************)
(* optee-teec: the client side of the TEE protocol.                        *)
(*   src/src/parameter.rs  ParamType, ParamTypes, Parameter, Parameters    *)
(*   src/src/context.rs    Context (new, new_raw, open_session, Drop)      *)
(* Every u32 of the source is a natural number below 2^32; the values the  *)
(* model draws stay below 2^31 and the shifts are computed modulo 2^32.    *)
(***************************************************************************)
EXTENDS Integers, Naturals, Sequences, FiniteSets, TLC

VARIABLES
    types,          \* the four ParamType arguments of ParamTypes::new
    packed,         \* the ParamTypes word built from them (-1: not built)
    flags,          \* into_flags() of that word (<<>>: not taken)
    rawValue,       \* a u32 handed to ParamType::from
    decoded,        \* the ParamType it converts to ("unset": not converted)
    teec_params,    \* the raw [TEEC_Parameter; 4] handed to Parameters::new
    param_types,    \* the packed u32 type word handed to Parameters::new
    parameters,     \* the Parameters tuple built (<<>>: not built)
    param,          \* one Parameter {raw, param_type} (NoParam: none yet)
    written,        \* the arguments of the last from_value / set_value call
    valueRead,      \* what the last value() call returned (<<>>: none)
    lastCall,       \* the last Parameter method called
    ctxState,       \* lifecycle state of each Context construction
    initCalls,      \* TEEC_InitializeContext invocations, per construction
    finalizeCalls,  \* TEEC_FinalizeContext invocations, per construction
    sessions,       \* the Session values produced, in order of creation
    last            \* the last Context operation: driver outputs and result

typeVars   == <<types, packed, flags>>
decodeVars == <<rawValue, decoded>>
tupleVars  == <<teec_params, param_types, parameters>>
paramVars  == <<param, written, valueRead, lastCall>>
ctxVars    == <<ctxState, initCalls, finalizeCalls, sessions, last>>
vars == <<types, packed, flags, rawValue, decoded, teec_params, param_types,
          parameters, param, written, valueRead, lastCall,
          ctxState, initCalls, finalizeCalls, sessions, last>>

----------------------------------------------------------------------------
(* Bounds of the model *)

\* ParamType::from is applied to every u32 in 0..MaxRawValue (and to LargeU32)
MaxRawValue == 64
\* the bits of the Parameters::new type word above the low 16 range over 0..MaxHighBits
MaxHighBits == 1
\* the scalars a, b of a value parameter range over 0..MaxScalar (and the samples)
MaxScalar == 2
\* sizes of a temporary memory reference range over 0..MaxSize
MaxSize == 1
\* number of Context constructions attempted
MaxContexts == 2
\* number of Session values produced
MaxSessions == 2
\* the driver's failure codes range over 1..MaxFailureCode
MaxFailureCode == 2
\* the driver assigns session identifiers in 1..MaxSessionId
MaxSessionId == 1

----------------------------------------------------------------------------
(* u32 arithmetic *)

U32Bits == 32

\* a u32 the model can hold that is far above every tag and every 16-bit word
LargeU32 == 2 * (2^30 - 1) + 1

\* the u32 operator & of parameter.rs
RECURSIVE BitAnd(_, _)
BitAnd(a, b) ==
    IF a = 0 \/ b = 0 THEN 0
    ELSE (a % 2) * (b % 2) + 2 * BitAnd(a \div 2, b \div 2)

\* the u32 operator | of parameter.rs
RECURSIVE BitOr(_, _)
BitOr(a, b) ==
    IF a = 0 THEN b
    ELSE IF b = 0 THEN a
    ELSE (IF a % 2 = 1 \/ b % 2 = 1 THEN 1 ELSE 0) + 2 * BitOr(a \div 2, b \div 2)

\* the u32 operator << : the bits shifted past bit 31 are lost
Shl(x, n) == (x % (2^(U32Bits - n))) * (2^n)

\* the u32 operator >> (used by the claims, not by the source)
Shr(x, n) == x \div (2^n)

----------------------------------------------------------------------------
(* ParamType *)

\* enum ParamType: the variants
ParamType ==
    {"None", "ValueInput", "ValueOutput", "ValueInout",
     "MemrefTempInput", "MemrefTempOutput", "MemrefTempInout",
     "MemrefWhole", "MemrefPartialInput", "MemrefPartialOutput",
     "MemrefPartialInout"}

\* enum ParamType: the discriminant of a variant (p as u32)
Tag(p) ==
    CASE p = "None"                -> 0
      [] p = "ValueInput"          -> 1
      [] p = "ValueOutput"         -> 2
      [] p = "ValueInout"          -> 3
      [] p = "MemrefTempInput"     -> 5
      [] p = "MemrefTempOutput"    -> 6
      [] p = "MemrefTempInout"     -> 7
      [] p = "MemrefWhole"         -> 12
      [] p = "MemrefPartialInput"  -> 13
      [] p = "MemrefPartialOutput" -> 14
      [] p = "MemrefPartialInout"  -> 15

\* a decode table that takes the tags to be contiguous from 0 to 7
ParamType_from_u32_contiguous(value) ==
    CASE value = 0  -> "None"
      [] value = 1  -> "ValueInput"
      [] value = 2  -> "ValueOutput"
      [] value = 3  -> "ValueInout"
      [] value = 4  -> "MemrefTempInput"
      [] value = 5  -> "MemrefTempOutput"
      [] value = 6  -> "MemrefTempInout"
      [] value = 12 -> "MemrefWhole"
      [] value = 13 -> "MemrefPartialInput"
      [] value = 14 -> "MemrefPartialOutput"
      [] value = 15 -> "MemrefPartialInout"
      [] OTHER      -> "None"

\* impl From<u32> for ParamType
ParamType_from_u32(value) ==
    CASE value = 0  -> "None"
      [] value = 1  -> "ValueInput"
      [] value = 2  -> "ValueOutput"
      [] value = 3  -> "ValueInout"
      [] value = 5  -> "MemrefTempInput"
      [] value = 6  -> "MemrefTempOutput"
      [] value = 7  -> "MemrefTempInout"
      [] value = 12 -> "MemrefWhole"
      [] value = 13 -> "MemrefPartialInput"
      [] value = 14 -> "MemrefPartialOutput"
      [] value = 15 -> "MemrefPartialInout"
      [] OTHER      -> "None"

----------------------------------------------------------------------------
(* ParamTypes *)

\* a packing that shifts the third tag by 4 instead of 8
ParamTypes_new_shift4(p0, p1, p2, p3) ==
    BitOr(BitOr(BitOr(Tag(p0), Shl(Tag(p1), 4)), Shl(Tag(p2), 4)), Shl(Tag(p3), 12))

\* ParamTypes::new: | binds looser than <<
ParamTypes_new(p0, p1, p2, p3) ==
    BitOr(BitOr(BitOr(Tag(p0), Shl(Tag(p1), 4)), Shl(Tag(p2), 8)), Shl(Tag(p3), 12))

\* ParamTypes::into_flags: each nibble is masked in place and converted as it is
ParamTypes_into_flags(word) ==
    << ParamType_from_u32(BitAnd(15, word)),
       ParamType_from_u32(BitAnd(240, word)),
       ParamType_from_u32(BitAnd(3840, word)),
       ParamType_from_u32(BitAnd(61440, word)) >>

\* impl From<u32> for ParamTypes: the word is kept whole
ParamTypes_from_u32(value) == value

\* impl From<[u32; 4]> for ParamTypes
ParamTypes_from_array(arr) ==
    BitOr(BitOr(BitOr(arr[1], Shl(arr[2], 4)), Shl(arr[3], 8)), Shl(arr[4], 12))

----------------------------------------------------------------------------
(* ParamTypes::new and into_flags applied to every tuple of ParamType *)

TypeTuples == ParamType \X ParamType \X ParamType \X ParamType

TypesIdle == types = <<"None", "None", "None", "None">> /\ packed = -1 /\ flags = <<>>
DecodeIdle == rawValue = 0 /\ decoded = "unset"

\* let word = ParamTypes::new(t0, t1, t2, t3)
New ==
    /\ packed = -1
    /\ packed' = ParamTypes_new(types[1], types[2], types[3], types[4])
    /\ UNCHANGED <<types, flags>>

\* let word = ParamTypes::from([t0 as u32, t1 as u32, t2 as u32, t3 as u32])
FromArray ==
    /\ packed = -1
    /\ packed' = ParamTypes_from_array(<<Tag(types[1]), Tag(types[2]), Tag(types[3]),
                                         Tag(types[4])>>)
    /\ UNCHANGED <<types, flags>>

\* word.into_flags()
IntoFlags ==
    /\ packed # -1
    /\ flags = <<>>
    /\ flags' = ParamTypes_into_flags(packed)
    /\ UNCHANGED <<types, packed>>

----------------------------------------------------------------------------
(* ParamType::from applied to raw u32 values *)

RawValues == (0 .. MaxRawValue) \cup {255, 256, 65535, 65536, LargeU32}

\* ParamType::from(value)
Decode ==
    /\ decoded = "unset"
    /\ decoded' = ParamType_from_u32(rawValue)
    /\ UNCHANGED rawValue

----------------------------------------------------------------------------
(* Parameter: the raw TEEC_Parameter union and its type tag *)

\* the scalars the model hands to from_value and set_value
ScalarValues == (0 .. MaxScalar) \cup {LargeU32}

\* the buffer addresses the model hands to from_tmpref (0 is the null pointer)
BufferAddrs == {0, 1}

\* union TEEC_Parameter written through its value field
RawValue(a, b) == [active |-> "value", a |-> a, b |-> b]

\* union TEEC_Parameter written through its tmpref field
RawTmpref(buffer, size) == [active |-> "tmpref", buffer |-> buffer, size |-> size]

\* union TEEC_Parameter with every byte zero (mem::zeroed)
RawZeroed == [active |-> "zeroed"]

NoParam == [raw |-> [active |-> "none"], param_type |-> "None"]

\* Parameter::new
Parameter_new == [raw |-> RawZeroed, param_type |-> "None"]

\* Parameter::from_value
Parameter_from_value(a, b, t) == [raw |-> RawValue(a, b), param_type |-> t]

\* Parameter::from_tmpref
Parameter_from_tmpref(buffer, size, t) == [raw |-> RawTmpref(buffer, size), param_type |-> t]

\* Parameter::from_raw
Parameter_from_raw(raw, t) == [raw |-> raw, param_type |-> t]

\* Parameter::value: the results a read of raw.value can give. A union last
\* written through tmpref is read through the other interpretation, and what
\* the two scalars then hold depends on the target's layout.
Parameter_value(p) ==
    CASE p.raw.active = "value"  -> {<<p.raw.a, p.raw.b>>}
      [] p.raw.active = "zeroed" -> {<<0, 0>>}
      [] OTHER                   -> ScalarValues \X ScalarValues

\* a set_value that stores a and leaves b as it was
Parameter_set_value_a_only(p, a, b) ==
    [p EXCEPT !.raw = RawValue(a, IF p.raw.active = "value" THEN p.raw.b ELSE 0)]

\* Parameter::set_value: both scalars are stored, param_type is not touched
Parameter_set_value(p, a, b) == [p EXCEPT !.raw = RawValue(a, b)]

\* Parameter::set_param_type
Parameter_set_param_type(p, t) == [p EXCEPT !.param_type = t]

\* no scalars were handed to the Parameter since it was built
NoWrite == [by |-> "none", a |-> 0, b |-> 0]

ParamIdle == param = NoParam /\ written = NoWrite /\ valueRead = <<>> /\ lastCall = "none"

\* let p = Parameter::new()
ParameterNew ==
    /\ param' = Parameter_new
    /\ written' = NoWrite
    /\ valueRead' = <<>>
    /\ lastCall' = "new"

\* let p = Parameter::from_value(a, b, t)
FromValue(a, b, t) ==
    /\ param' = Parameter_from_value(a, b, t)
    /\ written' = [by |-> "from_value", a |-> a, b |-> b]
    /\ valueRead' = <<>>
    /\ lastCall' = "from_value"

\* let p = Parameter::from_tmpref(buffer, size, t)
FromTmpref(buffer, size, t) ==
    /\ param' = Parameter_from_tmpref(buffer, size, t)
    /\ written' = NoWrite
    /\ valueRead' = <<>>
    /\ lastCall' = "from_tmpref"

\* p.set_value(a, b)
SetValue(a, b) ==
    /\ param # NoParam
    /\ param' = Parameter_set_value(param, a, b)
    /\ written' = [by |-> "set_value", a |-> a, b |-> b]
    /\ valueRead' = <<>>
    /\ lastCall' = "set_value"

\* p.set_param_type(t)
SetParamType(t) ==
    /\ param # NoParam
    /\ param' = Parameter_set_param_type(param, t)
    /\ valueRead' = <<>>
    /\ lastCall' = "set_param_type"
    /\ UNCHANGED written

\* p.value()
Value ==
    /\ param # NoParam
    /\ \E r \in Parameter_value(param) : valueRead' = r
    /\ lastCall' = "value"
    /\ UNCHANGED <<param, written>>

----------------------------------------------------------------------------
(* Parameters: the 4-tuple built from a raw array and a packed type word *)

\* Parameters::new
Parameters_new(raws, word) ==
    LET f == ParamTypes_into_flags(ParamTypes_from_u32(word))
    IN  << Parameter_from_raw(raws[1], f[1]),
           Parameter_from_raw(raws[2], f[2]),
           Parameter_from_raw(raws[3], f[3]),
           Parameter_from_raw(raws[4], f[4]) >>

\* Parameters::first
first(ps) == ps[1]
\* Parameters::second
second(ps) == ps[2]
\* Parameters::third
third(ps) == ps[3]
\* Parameters::fourth
fourth(ps) == ps[4]

\* the raw arrays the model hands to Parameters::new: the four slots differ
RawArrays ==
    { << RawValue(0, 1), RawValue(1, 2), RawValue(2, 0), RawValue(LargeU32, LargeU32) >>,
      << RawTmpref(1, 0), RawZeroed, RawValue(1, 1), RawTmpref(0, MaxSize) >> }

\* the type words: every 16-bit word, under every pattern of higher bits
TypeWords == { lo + 65536 * hi : lo \in 0 .. 65535, hi \in 0 .. MaxHighBits }

TupleIdle == teec_params = <<>> /\ param_types = 0 /\ parameters = <<>>

\* let ps = Parameters::new(teec_params, param_types)
ParametersNew ==
    /\ parameters = <<>>
    /\ parameters' = Parameters_new(teec_params, param_types)
    /\ UNCHANGED <<teec_params, param_types>>

----------------------------------------------------------------------------
(* The driver, as this layer sees it *)

\* raw::TEEC_SUCCESS, the success sentinel
TEEC_SUCCESS == 0

\* the statuses a driver primitive can return: the sentinel or a failure code
FailureCodes == 1 .. MaxFailureCode
Statuses == {TEEC_SUCCESS} \cup FailureCodes

\* the error origins the driver reports: client API, comms, TEE, trusted application
ErrorOrigins == 1 .. 4

\* the session identifiers the driver assigns
SessionIds == 1 .. MaxSessionId

\* Error::from_raw_error(code): the error is built from the status code alone
Error_from_raw_error(code) == [code |-> code]

\* Result::Ok and Result::Err
Ok(v) == [ok |-> TRUE, value |-> v]
Err(e) == [ok |-> FALSE, err |-> e]

\* Session::from_raw: the raw session is wrapped as it is
Session_from_raw(raw_session) == raw_session

----------------------------------------------------------------------------
(* Context *)

Contexts == 1 .. MaxContexts

NoCall == [op |-> "none", ctx |-> 0, status |-> 0, origin |-> 0, session_id |-> 0,
           result |-> Ok(0)]

CtxIdle ==
    /\ ctxState = [c \in Contexts |-> "Uninitialized"]
    /\ initCalls = [c \in Contexts |-> "none"]
    /\ finalizeCalls = [c \in Contexts |-> 0]
    /\ sessions = <<>>
    /\ last = NoCall

\* a new_raw that builds the Context before it looks at the status, so that the
\* failure path drops it
Context_new_raw_build_first(c, status) ==
    /\ initCalls[c] = "none"
    /\ \A d \in Contexts : d < c => initCalls[d] # "none"
    /\ initCalls' = [initCalls EXCEPT ![c] = IF status = TEEC_SUCCESS THEN "ok" ELSE "failed"]
    /\ IF status = TEEC_SUCCESS
       THEN /\ ctxState' = [ctxState EXCEPT ![c] = "Open"]
            /\ UNCHANGED finalizeCalls
            /\ last' = [NoCall EXCEPT !.op = "new_raw", !.ctx = c, !.status = status,
                                      !.result = Ok(c)]
       ELSE /\ ctxState' = [ctxState EXCEPT ![c] = "Finalized"]
            /\ finalizeCalls' = [finalizeCalls EXCEPT ![c] = @ + 1]
            /\ last' = [NoCall EXCEPT !.op = "new_raw", !.ctx = c, !.status = status,
                                      !.result = Err(Error_from_raw_error(status))]
    /\ UNCHANGED sessions

\* a new_raw that returns the Context whatever the driver answered
Context_new_raw_unchecked(c, status) ==
    /\ initCalls[c] = "none"
    /\ \A d \in Contexts : d < c => initCalls[d] # "none"
    /\ initCalls' = [initCalls EXCEPT ![c] = IF status = TEEC_SUCCESS THEN "ok" ELSE "failed"]
    /\ ctxState' = [ctxState EXCEPT ![c] = "Open"]
    /\ last' = [NoCall EXCEPT !.op = "new_raw", !.ctx = c, !.status = status,
                              !.result = Ok(c)]
    /\ UNCHANGED <<finalizeCalls, sessions>>

\* Context::new_raw, and Context::new which is new_raw(0, true): the c-th
\* construction. TEEC_InitializeContext answers status; on the sentinel the
\* Context exists and is Open, on any other status the error is returned and
\* raw_ctx, a plain structure, goes away without a finalize.
Context_new_raw(c, status) ==
    /\ initCalls[c] = "none"
    /\ \A d \in Contexts : d < c => initCalls[d] # "none"
    /\ initCalls' = [initCalls EXCEPT ![c] = IF status = TEEC_SUCCESS THEN "ok" ELSE "failed"]
    /\ IF status = TEEC_SUCCESS
       THEN /\ ctxState' = [ctxState EXCEPT ![c] = "Open"]
            /\ last' = [NoCall EXCEPT !.op = "new_raw", !.ctx = c, !.status = status,
                                      !.result = Ok(c)]
       ELSE /\ UNCHANGED ctxState
            /\ last' = [NoCall EXCEPT !.op = "new_raw", !.ctx = c, !.status = status,
                                      !.result = Err(Error_from_raw_error(status))]
    /\ UNCHANGED <<finalizeCalls, sessions>>

\* an open_session that wraps a session whose identifier is still the initial 0
Context_open_session_stale_id(c, status, origin, session_id) ==
    /\ ctxState[c] = "Open"
    /\ Len(sessions) < MaxSessions
    /\ (status = TEEC_SUCCESS) = (origin = 0)
    /\ (status = TEEC_SUCCESS) = (session_id # 0)
    /\ IF status = TEEC_SUCCESS
       THEN /\ sessions' = Append(sessions, [ctx |-> c, session_id |-> 0, live |-> TRUE])
            /\ last' = [NoCall EXCEPT !.op = "open_session", !.ctx = c, !.status = status,
                                      !.session_id = session_id,
                                      !.result = Ok(Session_from_raw(
                                                   [ctx |-> c, session_id |-> 0]))]
       ELSE /\ UNCHANGED sessions
            /\ last' = [NoCall EXCEPT !.op = "open_session", !.ctx = c, !.status = status,
                                      !.origin = origin,
                                      !.result = Err(Error_from_raw_error(status))]
    /\ UNCHANGED <<ctxState, initCalls, finalizeCalls>>

\* Context::open_session on the live Context c. raw_session starts as
\* {ctx: this Context, session_id: 0}; TEEC_OpenSession answers status, and
\* leaves the session identifier in raw_session (success) or the origin in
\* err_origin (failure). err_origin is not read afterwards.
Context_open_session(c, status, origin, session_id) ==
    /\ ctxState[c] = "Open"
    /\ Len(sessions) < MaxSessions
    /\ (status = TEEC_SUCCESS) = (origin = 0)
    /\ (status = TEEC_SUCCESS) = (session_id # 0)
    /\ IF status = TEEC_SUCCESS
       THEN /\ sessions' = Append(sessions, [ctx |-> c, session_id |-> session_id,
                                             live |-> TRUE])
            /\ last' = [NoCall EXCEPT !.op = "open_session", !.ctx = c, !.status = status,
                                      !.session_id = session_id,
                                      !.result = Ok(Session_from_raw(
                                                   [ctx |-> c, session_id |-> session_id]))]
       ELSE /\ UNCHANGED sessions
            /\ last' = [NoCall EXCEPT !.op = "open_session", !.ctx = c, !.status = status,
                                      !.origin = origin,
                                      !.result = Err(Error_from_raw_error(status))]
    /\ UNCHANGED <<ctxState, initCalls, finalizeCalls>>

\* impl Drop for Context: the scope of Context c ends. TEEC_FinalizeContext is
\* called, whatever Sessions were opened from c.
Context_drop(c) ==
    /\ ctxState[c] = "Open"
    /\ ctxState' = [ctxState EXCEPT ![c] = "Finalized"]
    /\ finalizeCalls' = [finalizeCalls EXCEPT ![c] = @ + 1]
    /\ last' = [NoCall EXCEPT !.op = "drop_context", !.ctx = c]
    /\ UNCHANGED <<initCalls, sessions>>

\* the scope of the i-th Session ends: the session is closed
Session_drop(i) ==
    /\ i \in 1 .. Len(sessions)
    /\ sessions[i].live
    /\ sessions' = [sessions EXCEPT ![i].live = FALSE]
    /\ last' = [NoCall EXCEPT !.op = "drop_session", !.ctx = sessions[i].ctx,
                              !.session_id = sessions[i].session_id]
    /\ UNCHANGED <<ctxState, initCalls, finalizeCalls>>

----------------------------------------------------------------------------
(* Specifications *)

\* the Context and Session lifecycle
Init == TypesIdle /\ DecodeIdle /\ TupleIdle /\ ParamIdle /\ CtxIdle

NewRaw == \E c \in Contexts, status \in Statuses : Context_new_raw(c, status)
OpenSession ==
    \E c \in Contexts, status \in Statuses, origin \in {0} \cup ErrorOrigins,
       session_id \in {0} \cup SessionIds :
        Context_open_session(c, status, origin, session_id)
DropContext == \E c \in Contexts : Context_drop(c)
DropSession == \E i \in 1 .. MaxSessions : Session_drop(i)

Next ==
    \/ (NewRaw /\ UNCHANGED <<typeVars, decodeVars, tupleVars, paramVars>>)
    \/ (OpenSession /\ UNCHANGED <<typeVars, decodeVars, tupleVars, paramVars>>)
    \/ (DropContext /\ UNCHANGED <<typeVars, decodeVars, tupleVars, paramVars>>)
    \/ (DropSession /\ UNCHANGED <<typeVars, decodeVars, tupleVars, paramVars>>)

Spec == Init /\ [][Next]_vars

\* ParamTypes::new and into_flags over every tuple of ParamType
InitTypes ==
    /\ types \in TypeTuples /\ packed = -1 /\ flags = <<>>
    /\ DecodeIdle /\ TupleIdle /\ ParamIdle /\ CtxIdle

NextTypes ==
    \/ (New /\ UNCHANGED <<decodeVars, tupleVars, paramVars, ctxVars>>)
    \/ (FromArray /\ UNCHANGED <<decodeVars, tupleVars, paramVars, ctxVars>>)
    \/ (IntoFlags /\ UNCHANGED <<decodeVars, tupleVars, paramVars, ctxVars>>)

SpecTypes == InitTypes /\ [][NextTypes]_vars

\* ParamType::from over raw u32 values
InitDecode ==
    /\ rawValue \in RawValues /\ decoded = "unset"
    /\ TypesIdle /\ TupleIdle /\ ParamIdle /\ CtxIdle

NextDecode == Decode /\ UNCHANGED <<typeVars, tupleVars, paramVars, ctxVars>>

SpecDecode == InitDecode /\ [][NextDecode]_vars

\* Parameters::new over raw arrays and type words
InitTuple ==
    /\ teec_params \in RawArrays /\ param_types \in TypeWords /\ parameters = <<>>
    /\ TypesIdle /\ DecodeIdle /\ ParamIdle /\ CtxIdle

NextTuple == ParametersNew /\ UNCHANGED <<typeVars, decodeVars, paramVars, ctxVars>>

SpecTuple == InitTuple /\ [][NextTuple]_vars

\* one Parameter: construction, writes and reads
NextParam ==
    \/ (ParameterNew /\ UNCHANGED <<typeVars, decodeVars, tupleVars, ctxVars>>)
    \/ (\E a \in ScalarValues, b \in ScalarValues, t \in ParamType :
            FromValue(a, b, t) /\ UNCHANGED <<typeVars, decodeVars, tupleVars, ctxVars>>)
    \/ (\E buffer \in BufferAddrs, size \in 0 .. MaxSize, t \in ParamType :
            FromTmpref(buffer, size, t)
            /\ UNCHANGED <<typeVars, decodeVars, tupleVars, ctxVars>>)
    \/ (\E a \in ScalarValues, b \in ScalarValues :
            SetValue(a, b) /\ UNCHANGED <<typeVars, decodeVars, tupleVars, ctxVars>>)
    \/ (\E t \in ParamType :
            SetParamType(t) /\ UNCHANGED <<typeVars, decodeVars, tupleVars, ctxVars>>)
    \/ (Value /\ UNCHANGED <<typeVars, decodeVars, tupleVars, ctxVars>>)

SpecParam == Init /\ [][NextParam]_vars

----------------------------------------------------------------------------
(* Claims *)

\* the tags of the eleven variants
LegalTags == { Tag(p) : p \in ParamType }

\* nibble i of a word, slot 0 being the least significant nibble
Nibble(word, i) == BitAnd(Shr(word, 4 * i), 15)

\* C1: round trip. For every four ParamType (t0,t1,t2,t3),
\* ParamTypes::new(t0,t1,t2,t3).into_flags() returns (t0,t1,t2,t3), slot by slot.
C1_RoundTrip == flags # <<>> => flags = types

\* C2: when the driver's open-session primitive returns a non-success status c
\* with error origin o, open_session returns an error that exposes exactly the
\* code c and exactly the origin o, and produces no Session.
C2_ErrorExposesCodeAndOrigin ==
    (last.op = "open_session" /\ last.status # TEEC_SUCCESS) =>
        /\ ~last.result.ok
        /\ last.result.err.code = last.status
        /\ "origin" \in DOMAIN last.result.err
        /\ last.result.err.origin = last.origin

\* C3: the driver's finalize primitive is invoked exactly once for each Context
\* whose initialize call succeeded, at the end of that Context's scope and at no
\* other step; it is never invoked for a construction whose initialize call
\* failed; Finalized is terminal.
C3_FinalizeOncePerInitialize ==
    /\ [](\A c \in Contexts :
             /\ finalizeCalls[c] = (IF ctxState[c] = "Finalized" THEN 1 ELSE 0)
             /\ initCalls[c] # "ok" => finalizeCalls[c] = 0)
    /\ [][\A c \in Contexts :
             /\ ctxState[c] = "Finalized" =>
                    ctxState'[c] = "Finalized" /\ finalizeCalls'[c] = finalizeCalls[c]
             /\ finalizeCalls'[c] # finalizeCalls[c] =>
                    /\ initCalls[c] = "ok" /\ ctxState[c] = "Open"
                    /\ last'.op = "drop_context" /\ last'.ctx = c]_vars

C3_Witness ==
    \E c, d \in Contexts :
        /\ initCalls[c] = "ok" /\ ctxState[c] = "Finalized" /\ finalizeCalls[c] = 1
        /\ initCalls[d] = "failed" /\ finalizeCalls[d] = 0

\* C4: Context construction is all-or-nothing. new / new_raw yields an Open
\* Context if and only if the driver's initialize primitive returned the success
\* sentinel; on any other status it returns an error carrying exactly that
\* status code and no Context exists.
C4_ConstructionAllOrNothing ==
    /\ last.op = "new_raw" =>
          /\ last.result.ok = (last.status = TEEC_SUCCESS)
          /\ last.result.ok =>
                 last.result.value = last.ctx /\ ctxState[last.ctx] = "Open"
          /\ ~last.result.ok =>
                 /\ last.result.err.code = last.status
                 /\ ctxState[last.ctx] = "Uninitialized"
    /\ \A c \in Contexts : ctxState[c] # "Uninitialized" => initCalls[c] = "ok"

C4_Witness ==
    /\ last.op = "new_raw" /\ last.status = MaxFailureCode /\ ~last.result.ok
    /\ ctxState[last.ctx] = "Uninitialized"
    /\ \E d \in Contexts : ctxState[d] = "Open"

\* C5: in every reachable state no live Session refers to a Finalized Context.
C5_NoLiveSessionOnFinalizedContext ==
    \A i \in 1 .. Len(sessions) :
        sessions[i].live => ctxState[sessions[i].ctx] # "Finalized"

\* C6: defensive decode. Converting a raw u32 to ParamType always yields a
\* variant; each of the eleven tag values yields the variant with that tag, and
\* every other value (0x4, 0x8, 0x9, 0xA, 0xB among them) yields None.
C6_DefensiveDecode ==
    decoded # "unset" =>
        /\ decoded \in ParamType
        /\ rawValue \in LegalTags => Tag(decoded) = rawValue
        /\ rawValue \notin LegalTags => decoded = "None"
        /\ rawValue \in {4, 8, 9, 10, 11} => decoded = "None"

C6_Witness == rawValue = 4 /\ decoded = "None"

\* the words ParamTypes::new gives over all tuples of ParamType
PackedWords == { ParamTypes_new(u[1], u[2], u[3], u[4]) : u \in TypeTuples }

\* C7: packing is positional. The word of ParamTypes::new(p0,p1,p2,p3) is the
\* sum of tag(pi) * 16^i, fits in 16 bits, and its nibble i is the tag of slot
\* i; (ValueInput,None,None,None) packs to 0x0001 and (None,ValueInput,None,None)
\* to 0x0010; distinct tuples pack to distinct words.
C7_PackingPositional ==
    /\ packed # -1 =>
          /\ packed = Tag(types[1]) + 16 * Tag(types[2]) + 256 * Tag(types[3])
                      + 4096 * Tag(types[4])
          /\ packed < 65536
          /\ \A i \in 0 .. 3 : Nibble(packed, i) = Tag(types[i + 1])
          /\ types = <<"ValueInput", "None", "None", "None">> => packed = 1
          /\ types = <<"None", "ValueInput", "None", "None">> => packed = 16
    /\ Cardinality(PackedWords) = Cardinality(TypeTuples)

C7_Witness == types = <<"None", "ValueInput", "None", "None">> /\ packed = 16

\* slot i of a Parameters tuple, through its accessor
Slot(ps, i) ==
    CASE i = 0 -> first(ps)
      [] i = 1 -> second(ps)
      [] i = 2 -> third(ps)
      [] i = 3 -> fourth(ps)

\* C8: for every type word w and raw array r, slot i of Parameters::new(r, w)
\* holds r[i] and the ParamType decoding of nibble i of w, ParamType::from((w >>
\* 4*i) & 0xF); the bits of w above the low 16 change nothing.
C8_SlotsDecodeNibbles ==
    parameters # <<>> =>
        \A i \in 0 .. 3 :
            /\ Slot(parameters, i).raw = teec_params[i + 1]
            /\ Slot(parameters, i).param_type = ParamType_from_u32(Nibble(param_types, i))

\* C9: scalar fidelity. value() returns the (a, b) of the last from_value or
\* set_value call made on the Parameter, and set_value leaves param_type as it was.
C9_ScalarFidelity ==
    /\ []((lastCall = "value" /\ written.by # "none") =>
              valueRead = <<written.a, written.b>>)
    /\ [][lastCall' = "set_value" => param'.param_type = param.param_type]_vars

C9_Witness ==
    /\ lastCall = "value"
    /\ written = [by |-> "set_value", a |-> 1, b |-> 2]
    /\ valueRead = <<1, 2>>
    /\ param.param_type = "ValueInout"

\* C10: on an Open Context, open_session succeeds whenever the driver's
\* open-session primitive returns the success sentinel: the Session returned
\* carries the identifier the driver assigned and refers to this Context, which
\* is still Open; no open_session, succeeding or failing, changes the lifecycle
\* state of a Context or invokes finalize.
C10_OpenSessionOnDriverSuccess ==
    /\ []((last.op = "open_session" /\ last.status = TEEC_SUCCESS) =>
              /\ last.result.ok
              /\ last.result.value.session_id = last.session_id
              /\ last.result.value.ctx = last.ctx
              /\ Len(sessions) > 0
              /\ sessions[Len(sessions)] =
                     [ctx |-> last.ctx, session_id |-> last.session_id, live |-> TRUE]
              /\ ctxState[last.ctx] = "Open")
    /\ [][last'.op = "open_session" =>
              ctxState' = ctxState /\ finalizeCalls' = finalizeCalls]_vars

C10_Witness ==
    /\ last.op = "open_session" /\ last.status = TEEC_SUCCESS
    /\ last.session_id = MaxSessionId
    /\ last.result.ok
    /\ ctxState[last.ctx] = "Open"

====
